---- MODULE Spec2Model ----
(***************************************************************************)
(* AI phone assistant: the backend routing engine (AIRouter), the three    *)
(* backend adapters (ClaudeHandler, OllamaHandler, GatewayHandler) and the *)
(* call lifecycle of PhoneAssistant that drives them.                      *)
(*                                                                         *)
(* Every webhook handler of server.py is an `async def` that calls the     *)
(* blocking PhoneAssistant methods without awaiting, so one handler runs   *)
(* to completion before the next starts: each handler is one action.       *)
(***************************************************************************)
EXTENDS Integers, Sequences, FiniteSets, TLC

VARIABLES
    cfg,           \* which adapters are configured, prefer_local, prefer_edge
    available,     \* AIRouter._ollama_available/_claude_available/_gateway_available
    hist,          \* conversation_history of each adapter
    active_calls,  \* PhoneAssistant.active_calls
    stats,         \* PhoneAssistant.stats
    curCall,       \* the call each caller is on according to the telephony provider (0: none)
    nCalls,        \* number of calls started so far
    nEvents,       \* number of requests handled so far
    last           \* what the last handler did: routed decision, adapter calls, result

vars == <<cfg, available, hist, active_calls, stats, curCall, nCalls, nEvents, last>>

----------------------------------------------------------------------------
(* Bounds *)

MaxEvents == 4
MaxRouterQueries == 1

Callers == {"A", "B"}

Adapters == {"ollama", "claude", "gateway"}

----------------------------------------------------------------------------
(* BackendType, QueryComplexity, RoutingDecision *)

OLLAMA_FAST == "ollama_fast"
OLLAMA_SMART == "ollama_smart"
OLLAMA_CHAT == "ollama_chat"
CLAUDE == "claude"
GATEWAY_FAST == "gateway_fast"
GATEWAY_SMART == "gateway_smart"
HYBRID == "hybrid"
HYBRID_EDGE == "hybrid_edge"

BackendType == {OLLAMA_FAST, OLLAMA_SMART, OLLAMA_CHAT, CLAUDE,
                GATEWAY_FAST, GATEWAY_SMART, HYBRID, HYBRID_EDGE}

SIMPLE == "simple"
MODERATE == "moderate"
COMPLEX == "complex"

QueryComplexity == {SIMPLE, MODERATE, COMPLEX}

RoutingDecision(b, m, r, c) ==
    [backend |-> b, model |-> m, reason |-> r, complexity |-> c]

----------------------------------------------------------------------------
(* Utterances.  An utterance is its text together with what the classifier *)
(* reads off it: the word count of the lower-cased, trimmed text, whether  *)
(* re.search finds a match for some simple / moderate / complex pattern,   *)
(* whether it contains an appointment keyword, and its trimmed text.       *)

Utterance(t, st, n, s, m, c, k) ==
    [text |-> t, stripped |-> st, wc |-> n,
     simple |-> s, moderate |-> m, complex |-> c, keyword |-> k]

Utterances ==
    { Utterance("hi", "hi", 1, TRUE, FALSE, FALSE, FALSE),
      Utterance("yes because", "yes because", 2, TRUE, FALSE, TRUE, FALSE),
      Utterance("check on my order", "check on my order", 4, FALSE, TRUE, FALSE, FALSE),
      Utterance("book a slot", "book a slot", 3, FALSE, TRUE, FALSE, TRUE),
      Utterance("explain my invoice", "explain my invoice", 3, FALSE, FALSE, TRUE, FALSE),
      Utterance("hello can you explain when you open",
                "hello can you explain when you open", 7, TRUE, TRUE, TRUE, FALSE),
      Utterance("   ", "", 0, FALSE, FALSE, FALSE, FALSE) }

\* utterances that reach the last stages of the classifier: a simple
\* pattern in more than three words, no pattern in 16 and in 11 words, and
\* the empty utterance
ClassifierUtterances ==
    { Utterance("thanks so much for your help today",
                "thanks so much for your help today", 7, TRUE, FALSE, FALSE, FALSE),
      Utterance("my dog ran to a park and sat on a red bench near a big tree",
                "my dog ran to a park and sat on a red bench near a big tree",
                16, FALSE, FALSE, FALSE, FALSE),
      Utterance("my dog ran to a park and sat on a bench",
                "my dog ran to a park and sat on a bench", 11, FALSE, FALSE, FALSE, FALSE),
      Utterance("", "", 0, FALSE, FALSE, FALSE, FALSE) }

\* the queries route() is called with on its own
RouteUtterances == Utterances \cup ClassifierUtterances

\* the utterances callers speak to a PhoneAssistant
AssistantUtterances ==
    {q \in Utterances : q.text \in {"hi", "explain my invoice"}}

\* analyze_query without the short-circuit for short utterances
analyze_query_NoShortCircuit(q) ==
    IF q.complex THEN COMPLEX
    ELSE IF q.moderate THEN MODERATE
    ELSE IF q.simple THEN SIMPLE
    ELSE IF q.wc > 15 THEN COMPLEX
    ELSE IF q.wc > 8 THEN MODERATE
    ELSE MODERATE

\* analyze_query with the moderate patterns tried before the complex ones
analyze_query_ModerateFirst(q) ==
    IF q.wc <= 3 /\ q.simple THEN SIMPLE
    ELSE IF q.moderate THEN MODERATE
    ELSE IF q.complex THEN COMPLEX
    ELSE IF q.simple THEN SIMPLE
    ELSE IF q.wc > 15 THEN COMPLEX
    ELSE IF q.wc > 8 THEN MODERATE
    ELSE MODERATE

\* analyze_query without the rule for more than 15 words
analyze_query_NoLengthRule(q) ==
    IF q.wc <= 3 /\ q.simple THEN SIMPLE
    ELSE IF q.complex THEN COMPLEX
    ELSE IF q.moderate THEN MODERATE
    ELSE IF q.simple THEN SIMPLE
    ELSE MODERATE

analyze_query(q) ==
    IF q.wc <= 3 /\ q.simple THEN SIMPLE
    ELSE IF q.complex THEN COMPLEX
    ELSE IF q.moderate THEN MODERATE
    ELSE IF q.simple THEN SIMPLE
    ELSE IF q.wc > 15 THEN COMPLEX
    ELSE IF q.wc > 8 THEN MODERATE
    ELSE MODERATE

\* is_appointment_query with no keyword ever found
is_appointment_query_Never(q) == FALSE

is_appointment_query(q) == q.keyword

----------------------------------------------------------------------------
(* Availability probes.  A Python call either returns a value or raises:   *)
(* the result of an operation that may raise is [raised, value].           *)

Return(v) == [raised |-> FALSE, value |-> v]

\* the element of a one-element set; {F(x) : x \in {e}} evaluates e once
The(S) == CHOOSE v \in S : TRUE
Raise == [raised |-> TRUE, value |-> FALSE]

\* what the liveness request of check_health_sync does
ProbeOutcomes == {"healthy", "unhealthy", "exception"}

\* check_health_sync without its try/except: the exception escapes
check_health_sync_Unguarded(p) ==
    IF p = "exception" THEN Raise ELSE Return(p = "healthy")

\* OllamaHandler.check_health_sync and GatewayHandler.check_health_sync: the
\* request runs inside try/except Exception, which returns False
check_health_sync(p) ==
    IF p = "exception" THEN Return(FALSE) ELSE Return(p = "healthy")

\* the probes a configuration can see, with outcomes from P: an adapter that
\* is not configured is not probed
Probes(P, c) ==
    [ollama : IF c.ollama THEN P ELSE {"unhealthy"},
     gateway : IF c.gateway THEN P ELSE {"unhealthy"}]

\* the probe outcomes exercised through a PhoneAssistant
CallProbeOutcomes == {"healthy", "unhealthy"}

\* check_backend_availability answering from the flags of an earlier call
\* where it has them
check_backend_availability_Cached(c, probe) ==
    Return([a \in {x \in Adapters : c[x]} |->
                IF a \in DOMAIN available THEN available[a]
                ELSE CASE a = "ollama" -> probe.ollama = "healthy"
                       [] a = "claude" -> TRUE
                       [] a = "gateway" -> probe.gateway = "healthy"])

\* the dict returned by check_backend_availability: a key per configured
\* adapter; a probe that raises makes the whole call raise
check_backend_availability(c, probe) ==
    LET o == check_health_sync(probe.ollama)
        g == check_health_sync(probe.gateway)
    IN
    IF (c.ollama /\ o.raised) \/ (c.gateway /\ g.raised) THEN Raise
    ELSE Return([a \in {x \in Adapters : c[x]} |->
                    CASE a = "ollama" -> o.value
                      [] a = "claude" -> TRUE
                      [] a = "gateway" -> g.value])

\* dict.get(key, True): an adapter missing from the snapshot counts as up
Get_DefaultTrue(availability, key) ==
    IF key \in DOMAIN availability THEN availability[key] ELSE TRUE

\* dict.get(key, False) with the edge adapter looked up under a key the
\* snapshot never has
Get_EdgeKeyMissing(availability, key) ==
    IF key \in DOMAIN availability \ {"gateway"} THEN availability[key] ELSE FALSE

\* dict.get(key, False)
Get(availability, key) ==
    IF key \in DOMAIN availability THEN availability[key] ELSE FALSE

----------------------------------------------------------------------------
(* AIRouter.route *)

\* _select_ollama_model without the largest model
_select_ollama_model_NoLargest(complexity) ==
    IF complexity = SIMPLE THEN "quick-responder:latest"
    ELSE "cyberque-chat:latest"

_select_ollama_model(complexity) ==
    IF complexity = SIMPLE THEN "quick-responder:latest"
    ELSE IF complexity = MODERATE THEN "cyberque-chat:latest"
    ELSE "llama3.3:70b"

\* _select_gateway_model returning the small model for every complexity
_select_gateway_model_AlwaysSmall(complexity) == "llama-3.2-1b"

_select_gateway_model(complexity) ==
    IF complexity = SIMPLE THEN "llama-3.2-1b"
    ELSE IF complexity = MODERATE THEN "llama-3.1-8b"
    ELSE "llama-3.3-70b"

\* the routing policy of route(), applied to the availability snapshot
routing_policy(c, q, availability) ==
    LET complexity == analyze_query(q)
        is_appointment == is_appointment_query(q)
        ollama_up == Get(availability, "ollama")
        claude_up == Get(availability, "claude")
        gateway_up == Get(availability, "gateway")
    IN
    IF c.prefer_edge /\ gateway_up /\ complexity = SIMPLE THEN
        RoutingDecision(GATEWAY_FAST, "llama-3.2-1b",
            "Simple query, using edge AI Gateway for low latency", complexity)
    ELSE IF gateway_up /\ ~ollama_up /\ ~claude_up THEN
        RoutingDecision(IF complexity = SIMPLE THEN GATEWAY_FAST ELSE GATEWAY_SMART,
            _select_gateway_model(complexity), "Only AI Gateway available", complexity)
    ELSE IF ollama_up /\ ~claude_up /\ ~gateway_up THEN
        RoutingDecision(IF complexity = SIMPLE THEN OLLAMA_FAST ELSE OLLAMA_CHAT,
            _select_ollama_model(complexity), "Only Ollama available", complexity)
    ELSE IF claude_up /\ ~ollama_up /\ ~gateway_up THEN
        RoutingDecision(CLAUDE, "None", "Only Claude available", complexity)
    ELSE IF ~ollama_up /\ ~claude_up /\ ~gateway_up THEN
        RoutingDecision(CLAUDE, "None",
            "No backends confirmed available, trying Claude", complexity)
    ELSE IF complexity = SIMPLE THEN
        RoutingDecision(OLLAMA_FAST, "quick-responder:latest",
            "Simple query, using fast local model", complexity)
    ELSE IF complexity = MODERATE THEN
        IF is_appointment THEN
            RoutingDecision(OLLAMA_CHAT, "cyberque-chat:latest",
                "Appointment query, using custom chat model", complexity)
        ELSE IF c.prefer_local THEN
            RoutingDecision(OLLAMA_CHAT, "cyberque-chat:latest",
                "Moderate query, preferring local model", complexity)
        ELSE
            RoutingDecision(CLAUDE, "None",
                "Moderate query, using Claude for quality", complexity)
    ELSE
        IF c.prefer_local THEN
            RoutingDecision(HYBRID, "llama3.3:70b",
                "Complex query, trying local smart model with Claude fallback", complexity)
        ELSE
            RoutingDecision(CLAUDE, "None",
                "Complex query, using Claude for best quality", complexity)

\* route(): classify, probe every configured adapter, apply the policy
route(c, q, probe) ==
    LET av == check_backend_availability(c, probe) IN
    IF av.raised THEN Raise ELSE Return(routing_policy(c, q, av.value))

----------------------------------------------------------------------------
(* Texts *)

\* the router's fixed apology (ai_router.py)
ROUTER_APOLOGY ==
    "I apologize, but I'm having trouble processing that. Could you please try again?"

\* the cloud adapter's fixed texts (claude_handler.py)
DIDNT_CATCH == "I didn't catch that. Could you please repeat?"
RATE_LIMIT_TEXT == "I'm currently experiencing high demand. Please try again in a moment."
CONNECTION_TEXT == "I'm having connection issues. Please try again."
API_ERROR_TEXT ==
    "I apologize, but I'm having trouble processing that. Could you please repeat?"
EMPTY_CONTENT_TEXT ==
    "I'm sorry, I didn't generate a proper response. Could you please repeat?"

\* texts a provider may answer with: a full answer, a two-letter answer, nothing
ProviderTexts(a) ==
    CASE a = "ollama" -> {"local answer", "ok", ""}
      [] a = "gateway" -> {"edge answer", "ok", ""}
      [] a = "claude" -> {"cloud answer", ""}

\* len(text.strip())
StripLen(t) ==
    CASE t = "" -> 0
      [] t = "ok" -> 2
      [] t = "edge answer" -> 11
      [] t \in {"local answer", "cloud answer"} -> 12
      [] t = DIDNT_CATCH -> 45
      [] t = CONNECTION_TEXT -> 47
      [] t = RATE_LIMIT_TEXT -> 69
      [] t = EMPTY_CONTENT_TEXT -> 72
      [] t = API_ERROR_TEXT -> 77
      [] t = ROUTER_APOLOGY -> 80

\* Python truth value of a string
Truthy(t) == t # ""

----------------------------------------------------------------------------
(* Backend adapters.  A turn of a transcript carries, besides role and     *)
(* content, the call during which it was appended (0 outside any call);    *)
(* the program does not store the call, it is kept to tell the turns of    *)
(* different calls apart.                                                  *)

MAX_CONVERSATION_LENGTH == 50

Turn(r, c, k) == [role |-> r, content |-> c, call |-> k]

\* what the provider does with one chat request
ProviderOutcomes(a) ==
    [kind : {"text"}, text : ProviderTexts(a)] \cup
    (IF a = "claude"
        THEN [kind : {"empty_content", "rate_limit", "connection", "api_error"}, text : {""}]
        ELSE [kind : {"timeout", "error"}, text : {""}])

\* the provider behaviours exercised through a PhoneAssistant: a full answer
\* or a failed request
CallOutcomes(a) ==
    {o \in ProviderOutcomes(a) :
        \/ o.kind = "text" /\ o.text \in {"local answer", "cloud answer"}
        \/ o.kind \in {"timeout", "api_error"}}

\* the outcome given to an adapter that is not called
Idle(a) == [kind |-> "text", text |-> ""]

\* the result of a generate call: the adapter's transcript afterwards, the
\* text returned, the messages sent to the provider (<<>>: no request) and
\* whether an exception left the call
Generated(h, r, s) == [hist |-> h, ret |-> r, sent |-> s, raised |-> FALSE]

\* ClaudeHandler._rollback_user_message
_rollback_user_message(h) ==
    IF Len(h) > 0 /\ h[Len(h)].role = "user" THEN SubSeq(h, 1, Len(h) - 1) ELSE h

\* ClaudeHandler._trim_conversation_history
_trim_conversation_history(h) ==
    IF Len(h) > MAX_CONVERSATION_LENGTH
        THEN SubSeq(h, Len(h) - MAX_CONVERSATION_LENGTH + 1, Len(h))
        ELSE h

\* ClaudeHandler.generate_response
ClaudeGenerate(h, q, k, o) ==
    IF q.text = "" \/ q.stripped = "" THEN Generated(h, DIDNT_CATCH, <<>>)
    ELSE
    LET h1 == _trim_conversation_history(Append(h, Turn("user", q.stripped, k))) IN
    CASE o.kind = "text" ->
            Generated(Append(h1, Turn("assistant", o.text, k)), o.text, h1)
      [] o.kind = "empty_content" ->
            Generated(Append(h1, Turn("assistant", EMPTY_CONTENT_TEXT, k)),
                      EMPTY_CONTENT_TEXT, h1)
      [] o.kind = "rate_limit" ->
            Generated(_rollback_user_message(h1), RATE_LIMIT_TEXT, h1)
      [] o.kind = "connection" ->
            Generated(_rollback_user_message(h1), CONNECTION_TEXT, h1)
      [] OTHER ->
            Generated(_rollback_user_message(h1), API_ERROR_TEXT, h1)

\* OllamaHandler.generate_response putting the user turn in front
OllamaGenerate_Prepends(h, q, k, o) ==
    LET h1 == <<Turn("user", q.text, k)>> \o h IN
    IF o.kind = "text"
        THEN Generated(Append(h1, Turn("assistant", o.text, k)), o.text, h1)
        ELSE Generated(h1, "", h1)

\* OllamaHandler.generate_response without its except clauses
OllamaGenerate_Unguarded(h, q, k, o) ==
    LET h1 == Append(h, Turn("user", q.text, k)) IN
    IF o.kind = "text"
        THEN Generated(Append(h1, Turn("assistant", o.text, k)), o.text, h1)
        ELSE [hist |-> h1, ret |-> "", sent |-> h1, raised |-> TRUE]

\* OllamaHandler.generate_response
OllamaGenerate(h, q, k, o) ==
    LET h1 == Append(h, Turn("user", q.text, k)) IN
    IF o.kind = "text"
        THEN Generated(Append(h1, Turn("assistant", o.text, k)), o.text, h1)
        ELSE Generated(h1, "", h1)

\* GatewayHandler.generate_response without the append of the answer
GatewayGenerate_AnswerNotStored(h, q, k, o) ==
    LET h1 == Append(h, Turn("user", q.text, k)) IN
    IF o.kind = "text"
        THEN Generated(h1, o.text, h1)
        ELSE Generated(h1, "", h1)

\* GatewayHandler.generate_response
GatewayGenerate(h, q, k, o) ==
    LET h1 == Append(h, Turn("user", q.text, k)) IN
    IF o.kind = "text"
        THEN Generated(Append(h1, Turn("assistant", o.text, k)), o.text, h1)
        ELSE Generated(h1, "", h1)

----------------------------------------------------------------------------
(* AIRouter.generate_response.  The adapters' transcripts and the log of   *)
(* the adapter calls made so far are threaded through the calls as a       *)
(* record [hist, calls].                                                   *)

\* self.<adapter>.generate_response(query, system_prompt, model=...): raises
\* AttributeError when the adapter is None
CallAdapter(c, S, a, model, q, k, outs) ==
    IF ~c[a] THEN
        [raised |-> TRUE, ret |-> "",
         S |-> [S EXCEPT !.calls = Append(@,
                    [adapter |-> a, model |-> model, raised |-> TRUE,
                     outcome |-> "none", ret |-> "", sent |-> <<>>])]]
    ELSE
        The({[raised |-> g.raised, ret |-> g.ret,
              S |-> [hist |-> [S.hist EXCEPT ![a] = g.hist],
                     calls |-> Append(S.calls,
                        [adapter |-> a, model |-> model, raised |-> g.raised,
                         outcome |-> outs[a].kind, ret |-> g.ret, sent |-> g.sent])]] :
             g \in {CASE a = "ollama" -> OllamaGenerate(S.hist[a], q, k, outs[a])
                      [] a = "claude" -> ClaudeGenerate(S.hist[a], q, k, outs[a])
                      [] a = "gateway" -> GatewayGenerate(S.hist[a], q, k, outs[a])}})

\* `response and len(response.strip()) < 5`: an empty text passes
Insufficient_EmptyPasses(response) == Truthy(response) /\ StripLen(response) < 5

\* `not response or len(response.strip()) < 5`
Insufficient(response) == ~Truthy(response) \/ StripLen(response) < 5

\* the state of generate_response at the end of its try block
Tried(S, response, decision, raised) ==
    [S |-> S, response |-> response, decision |-> decision, raised |-> raised]

\* a hybrid intent that asks the primary adapter again instead of the
\* fallback adapter
TryHybrid_PrimaryTwice(c, S, decision, primary, fallback, fbModel, fbDecision, q, k, outs) ==
    LET second(r1) ==
            The({IF r2.raised THEN Tried(r2.S, r1.ret, decision, TRUE)
                 ELSE Tried(r2.S, r2.ret, fbDecision, FALSE) :
                 r2 \in {CallAdapter(c, r1.S, primary, fbModel, q, k, outs)}})
    IN
    The({IF r1.raised THEN Tried(r1.S, "", decision, TRUE)
         ELSE IF Insufficient(r1.ret) THEN second(r1)
         ELSE Tried(r1.S, r1.ret, decision, FALSE) :
         r1 \in {CallAdapter(c, S, primary, decision.model, q, k, outs)}})

\* a hybrid intent: the primary adapter, then the fallback adapter if the
\* primary text is insufficient
TryHybrid(c, S, decision, primary, fallback, fbModel, fbDecision, q, k, outs) ==
    LET second(r1) ==
            The({IF r2.raised THEN Tried(r2.S, r1.ret, decision, TRUE)
                 ELSE Tried(r2.S, r2.ret, fbDecision, FALSE) :
                 r2 \in {CallAdapter(c, r1.S, fallback, fbModel, q, k, outs)}})
    IN
    The({IF r1.raised THEN Tried(r1.S, "", decision, TRUE)
         ELSE IF Insufficient(r1.ret) THEN second(r1)
         ELSE Tried(r1.S, r1.ret, decision, FALSE) :
         r1 \in {CallAdapter(c, S, primary, decision.model, q, k, outs)}})

\* the try block: dispatch on decision.backend
TryDispatch(c, S, decision, q, k, outs) ==
    LET single(a, model) ==
            The({IF r.raised THEN Tried(r.S, "", decision, TRUE)
                 ELSE Tried(r.S, r.ret, decision, FALSE) :
                 r \in {CallAdapter(c, S, a, model, q, k, outs)}})
    IN
    CASE decision.backend \in {OLLAMA_FAST, OLLAMA_CHAT, OLLAMA_SMART} ->
            single("ollama", decision.model)
      [] decision.backend = CLAUDE ->
            single("claude", "default")
      [] decision.backend \in {GATEWAY_FAST, GATEWAY_SMART} ->
            single("gateway", decision.model)
      [] decision.backend = HYBRID_EDGE ->
            TryHybrid(c, S, decision, "gateway", "ollama", "default",
                RoutingDecision(OLLAMA_CHAT, "cyberque-chat:latest",
                    "Hybrid fallback to Ollama", decision.complexity),
                q, k, outs)
      [] decision.backend = HYBRID ->
            TryHybrid(c, S, decision, "ollama", "claude", "default",
                RoutingDecision(CLAUDE, "None",
                    "Hybrid fallback to Claude", decision.complexity),
                q, k, outs)

\* reason=f"Fallback to Claude after {decision.backend.value} error"
FallbackReason(backend) ==
    CASE backend = OLLAMA_FAST -> "Fallback to Claude after ollama_fast error"
      [] backend = OLLAMA_SMART -> "Fallback to Claude after ollama_smart error"
      [] backend = OLLAMA_CHAT -> "Fallback to Claude after ollama_chat error"
      [] backend = CLAUDE -> "Fallback to Claude after claude error"
      [] backend = GATEWAY_FAST -> "Fallback to Claude after gateway_fast error"
      [] backend = GATEWAY_SMART -> "Fallback to Claude after gateway_smart error"
      [] backend = HYBRID -> "Fallback to Claude after hybrid error"
      [] backend = HYBRID_EDGE -> "Fallback to Claude after hybrid_edge error"

\* the except block with the retry's decision built with a default complexity
ExceptBlock_DefaultComplexity(c, t, q, k, outs) ==
    IF t.decision.backend # CLAUDE /\ c.claude THEN
        The({IF r.raised
                THEN Return(Tried(r.S, ROUTER_APOLOGY, t.decision, TRUE))
                ELSE Return(Tried(r.S, r.ret,
                        RoutingDecision(CLAUDE, "None",
                            FallbackReason(t.decision.backend), MODERATE),
                        TRUE)) :
             r \in {CallAdapter(c, t.S, "claude", "default", q, k, outs)}})
    ELSE Return(t)

\* the except block: one retry against the cloud adapter, itself inside
\* try/except; the result records whether an exception leaves the block
ExceptBlock(c, t, q, k, outs) ==
    IF t.decision.backend # CLAUDE /\ c.claude THEN
        The({IF r.raised
                THEN Return(Tried(r.S, ROUTER_APOLOGY, t.decision, TRUE))
                ELSE Return(Tried(r.S, r.ret,
                        RoutingDecision(CLAUDE, "None",
                            FallbackReason(t.decision.backend), t.decision.complexity),
                        TRUE)) :
             r \in {CallAdapter(c, t.S, "claude", "default", q, k, outs)}})
    ELSE Return(t)

\* generate_response without its final check: the text is returned as it is
SubstituteApology_Skipped(response) == response

\* `if not response: response = <apology>`
SubstituteApology(response) ==
    IF ~Truthy(response) THEN ROUTER_APOLOGY ELSE response

\* the result of generate_response: whether it raised to its caller, the
\* pair (text, decision) it returned, and what it did on the way
Result(propagated, text, decision, routed, S, caught, probe) ==
    [propagated |-> propagated, text |-> text, decision |-> decision,
     routed |-> routed, hist |-> S.hist, calls |-> S.calls, caught |-> caught,
     probe |-> probe]

NoDecision == RoutingDecision("none", "None", "none", "none")

generate_response(c, H, q, k, probe, outs) ==
    LET S0 == [hist |-> H, calls |-> <<>>]
        handled(rt, t) ==
            The({IF e.raised THEN Result(TRUE, "", NoDecision, rt.value, t.S, TRUE, probe)
                 ELSE Result(FALSE, SubstituteApology(e.value.response),
                             e.value.decision, rt.value, e.value.S, TRUE, probe) :
                 e \in {ExceptBlock(c, t, q, k, outs)}})
        dispatched(rt) ==
            The({IF t.raised THEN handled(rt, t)
                 ELSE Result(FALSE, SubstituteApology(t.response), t.decision,
                             rt.value, t.S, FALSE, probe) :
                 t \in {TryDispatch(c, S0, rt.value, q, k, outs)}})
    IN
    The({IF rt.raised THEN Result(TRUE, "", NoDecision, NoDecision, S0, FALSE, probe)
         ELSE dispatched(rt) :
         rt \in {route(c, q, probe)}})

\* a reset that forgets the edge adapter
reset_conversations_SkipsGateway(c, H) ==
    [a \in Adapters |-> IF c[a] /\ a # "gateway" THEN <<>> ELSE H[a]]

\* AIRouter.reset_conversations
reset_conversations(c, H) ==
    [a \in Adapters |-> IF c[a] THEN <<>> ELSE H[a]]

\* the outcomes that matter for a routed decision: the adapter the decision
\* dispatches to and the adapters a fallback may reach; an adapter that is
\* not called gets a fixed outcome

Reachable(c, decision) ==
    CASE decision.backend \in {OLLAMA_FAST, OLLAMA_CHAT, OLLAMA_SMART} -> {"ollama", "claude"}
      [] decision.backend = CLAUDE -> {"claude"}
      [] decision.backend \in {GATEWAY_FAST, GATEWAY_SMART} -> {"gateway", "claude"}
      [] decision.backend = HYBRID -> {"ollama", "claude"}
      [] decision.backend = HYBRID_EDGE -> {"gateway", "ollama", "claude"}
      [] OTHER -> {}

Outcomes(P, c, H, q, probe) ==
    LET called(outs) ==
            UNION {{cs[i].adapter : i \in 1..Len(cs)} :
                    cs \in {generate_response(c, H, q, 0, probe, outs).calls}}
        candidates(R) ==
            [ollama : IF "ollama" \in R THEN P["ollama"] \cup {Idle("ollama")}
                               ELSE {Idle("ollama")},
             claude : IF "claude" \in R THEN P["claude"] \cup {Idle("claude")}
                               ELSE {Idle("claude")},
             gateway : IF "gateway" \in R THEN P["gateway"] \cup {Idle("gateway")}
                               ELSE {Idle("gateway")}]
    IN UNION {{outs \in candidates(IF rt.raised THEN {}
                                   ELSE {a \in Reachable(c, rt.value) : c[a]}) :
                    \E C \in {called(outs)} :
                        \A a \in Adapters :
                            IF a \in C /\ c[a] THEN outs[a] \in P[a]
                            ELSE outs[a] = Idle(a)} :
              rt \in {route(c, q, probe)}}

\* the availability flags after check_backend_availability
Refreshed(c, flags, probe) ==
    LET av == check_backend_availability(c, probe) IN
    IF av.raised THEN flags
    ELSE [a \in DOMAIN flags \cup DOMAIN av.value |->
            IF a \in DOMAIN av.value THEN av.value[a] ELSE flags[a]]

----------------------------------------------------------------------------
(* PhoneAssistant *)

NoCustomer == [known |-> FALSE, id |-> "none"]
CustomerOf(caller) == [known |-> TRUE, id |-> caller]

\* the callers the CRM has a record of
Customers == {"A"}

\* what CRMBase.get_customer and CRMBase.create_note may do
LookupOutcomes == {"returns", "raises"}
NoteOutcomes == {"created", "raises"}

\* the note append without its try/except: the exception escapes
TryCreateNote_Unguarded(noted) ==
    IF noted = "raises" THEN [raised |-> TRUE, value |-> noted]
    ELSE [raised |-> FALSE, value |-> noted]

\* `try: self.crm.create_note(...) except Exception: log`: what became of
\* the note, never an exception
TryCreateNote(noted) == [raised |-> FALSE, value |-> noted]

ZeroStats ==
    [total_queries |-> 0, ollama_fast |-> 0, ollama_chat |-> 0,
     ollama_smart |-> 0, claude |-> 0, hybrid_fallback |-> 0]

\* _track_backend_usage without the branch for the hybrid intent
_track_backend_usage_HybridUncounted(st, backend) ==
    CASE backend = OLLAMA_FAST -> [st EXCEPT !.ollama_fast = @ + 1]
      [] backend = OLLAMA_CHAT -> [st EXCEPT !.ollama_chat = @ + 1]
      [] backend = OLLAMA_SMART -> [st EXCEPT !.ollama_smart = @ + 1]
      [] backend = CLAUDE -> [st EXCEPT !.claude = @ + 1]
      [] OTHER -> st

\* PhoneAssistant._track_backend_usage
_track_backend_usage(st, backend) ==
    CASE backend = OLLAMA_FAST -> [st EXCEPT !.ollama_fast = @ + 1]
      [] backend = OLLAMA_CHAT -> [st EXCEPT !.ollama_chat = @ + 1]
      [] backend = OLLAMA_SMART -> [st EXCEPT !.ollama_smart = @ + 1]
      [] backend = CLAUDE -> [st EXCEPT !.claude = @ + 1]
      [] backend = HYBRID -> [st EXCEPT !.hybrid_fallback = @ + 1]
      [] OTHER -> st

\* round(n / total * 100, 1), in tenths of a percent
Percentage(n, total) == (2000 * n + total) \div (2 * total)

\* PhoneAssistant.get_stats: self.stats after the call and the dict returned,
\* a copy with two percentages unless no query was counted
get_stats(st) ==
    [stats |-> st,
     returned |->
        IF st.total_queries = 0 THEN st
        ELSE [k \in DOMAIN st \cup {"ollama_percentage", "claude_percentage"} |->
                CASE k = "ollama_percentage" ->
                        Percentage(st.ollama_fast + st.ollama_chat + st.ollama_smart,
                                   st.total_queries)
                  [] k = "claude_percentage" -> Percentage(st.claude, st.total_queries)
                  [] OTHER -> st[k]]]

\* the phrases that end the conversation: none of the modelled texts has one
ClosingTexts == {}

\* TwilioHandler.create_response_twiml
create_response_twiml(message, continue_conversation) ==
    [say |-> message, continue |-> continue_conversation]

PROCESS_ERROR_TEXT ==
    "I apologize, I'm having trouble processing that. Could you please try again?"

\* what the last handler did
NoGen ==
    [propagated |-> FALSE, text |-> "", decision |-> NoDecision,
     routed |-> NoDecision, calls |-> <<>>, caught |-> FALSE,
     probe |-> [ollama |-> "unhealthy", gateway |-> "unhealthy"]]

Gen(r) ==
    [propagated |-> r.propagated, text |-> r.text, decision |-> r.decision,
     routed |-> r.routed, calls |-> r.calls, caught |-> r.caught, probe |-> r.probe]

\* the CRM note a handler tried to append: "none" when it tried none; sms is
\* what became of the text message a handler tried to send
Did(op, caller, call, text, gen, reply, note) ==
    [op |-> op, caller |-> caller, call |-> call, query |-> text,
     gen |-> gen, reply |-> reply, note |-> note, sms |-> "none",
     before |-> <<>>, status |-> "none", ack |-> "none"]

NoReply == create_response_twiml("", FALSE)

----------------------------------------------------------------------------
(* Initial states *)

RouterConfigs ==
    [ollama : BOOLEAN, claude : BOOLEAN, gateway : BOOLEAN,
     prefer_local : BOOLEAN, prefer_edge : BOOLEAN]

\* PhoneAssistant.__init__: a local adapter always, a cloud adapter when an
\* API key is set, no edge adapter, prefer_edge left at its default
AssistantConfigs ==
    [ollama : {TRUE}, claude : BOOLEAN, gateway : {FALSE},
     prefer_local : BOOLEAN, prefer_edge : {FALSE}]

Fresh ==
    /\ hist = [a \in Adapters |-> <<>>]
    /\ active_calls = <<>>
    /\ stats = ZeroStats
    /\ curCall = [c \in Callers |-> 0]
    /\ nCalls = 0
    /\ nEvents = 0
    /\ last = Did("init", "none", 0, "", NoGen, NoReply, "none")

\* AIRouter.__init__: the availability flags start as None
RouterInit ==
    /\ cfg \in RouterConfigs
    /\ available = <<>>
    /\ Fresh

\* PhoneAssistant.__init__, which ends with a first round of probes
Init ==
    /\ cfg \in AssistantConfigs
    /\ available \in {Refreshed(cfg, <<>>, p) : p \in Probes(CallProbeOutcomes, cfg)}
    /\ Fresh

----------------------------------------------------------------------------
(* Actions of a stand-alone AIRouter *)

GenerateResponse ==
    /\ nEvents < MaxRouterQueries
    /\ \E q \in Utterances : \E probe \in Probes(ProbeOutcomes, cfg) :
       \E outs \in Outcomes([a \in Adapters |-> ProviderOutcomes(a)], cfg, hist, q, probe) :
       \E r \in {generate_response(cfg, hist, q, 0, probe, outs)} :
        /\ hist' = r.hist
        /\ available' = Refreshed(cfg, available, probe)
        /\ last' = Did("generate_response", "none", 0, q.text, Gen(r), NoReply, "none")
    /\ nEvents' = nEvents + 1
    /\ UNCHANGED <<cfg, active_calls, stats, curCall, nCalls>>

\* the record of the generate call that preceded the reset is kept in last
ResetConversations ==
    /\ last.op # "reset_conversations"
    /\ hist' = reset_conversations(cfg, hist)
    /\ last' = Did("reset_conversations", "none", 0, last.query, last.gen, NoReply, "none")
    /\ UNCHANGED <<cfg, available, active_calls, stats, curCall, nCalls, nEvents>>

----------------------------------------------------------------------------
(* Actions of a PhoneAssistant: the webhook events *)

\* incoming_call: PhoneAssistant.handle_incoming_call
IncomingCall(caller, lookup) ==
    /\ curCall[caller] = 0
    /\ nEvents < MaxEvents
    /\ nEvents' = nEvents + 1
    /\ nCalls' = nCalls + 1
    /\ curCall' = [curCall EXCEPT ![caller] = nCalls + 1]
    /\ IF lookup = "raises" THEN
            UNCHANGED <<active_calls, hist>>
       ELSE
            /\ active_calls' =
                 [x \in DOMAIN active_calls \cup {caller} |->
                    IF x = caller
                    THEN [customer |-> IF caller \in Customers THEN CustomerOf(caller)
                                       ELSE NoCustomer,
                          backend_used |-> <<>>, query_count |-> 0]
                    ELSE active_calls[x]]
            /\ hist' = reset_conversations(cfg, hist)
    /\ last' = Did("incoming_call", caller, nCalls + 1, "", NoGen, NoReply, "none")
    /\ UNCHANGED <<cfg, available, stats>>

\* process_utterance: PhoneAssistant.process_speech (server.py answers an
\* empty SpeechResult itself)
ProcessSpeech(caller) ==
    /\ curCall[caller] # 0
    /\ nEvents < MaxEvents
    /\ nEvents' = nEvents + 1
    /\ \E q \in {u \in AssistantUtterances : u.text # ""} :
       \E probe \in Probes(CallProbeOutcomes, cfg) :
       \E outs \in Outcomes([a \in Adapters |-> CallOutcomes(a)], cfg, hist, q, probe) :
       \E noted \in NoteOutcomes :
       \E r \in {generate_response(cfg, hist, q, curCall[caller], probe, outs)} :
       LET active == caller \in DOMAIN active_calls
           customer == IF active THEN active_calls[caller].customer ELSE NoCustomer
           counted == IF active
                      THEN [active_calls EXCEPT ![caller].query_count = @ + 1]
                      ELSE active_calls
       IN
       /\ hist' = r.hist
       /\ available' = Refreshed(cfg, available, probe)
       /\ customer.known \/ noted = "created"
       /\ IF r.propagated THEN
            /\ active_calls' = counted
            /\ UNCHANGED stats
            /\ last' = Did("process_speech", caller, curCall[caller], q.text, Gen(r),
                           create_response_twiml(PROCESS_ERROR_TEXT, TRUE), "none")
          ELSE
            /\ stats' = _track_backend_usage(
                            [stats EXCEPT !.total_queries = @ + 1], r.decision.backend)
            /\ active_calls' =
                 IF active
                 THEN [counted EXCEPT ![caller].backend_used = Append(@, r.decision.backend)]
                 ELSE counted
            /\ \E n \in {IF customer.known THEN TryCreateNote(noted)
                          ELSE [raised |-> FALSE, value |-> "none"]} :
                 last' = Did("process_speech", caller, curCall[caller], q.text, Gen(r),
                             IF n.raised
                             THEN create_response_twiml(PROCESS_ERROR_TEXT, TRUE)
                             ELSE create_response_twiml(r.text, r.text \notin ClosingTexts),
                             n.value)
    /\ UNCHANGED <<cfg, curCall, nCalls>>

\* AIRouter.get_conversation_summary: the first adapter, in the order local,
\* edge, cloud, that has a transcript is asked to summarise it
SummaryAdapter(c, H) ==
    CASE c.ollama /\ H["ollama"] # <<>> -> "ollama"
      [] c.gateway /\ H["gateway"] # <<>> -> "gateway"
      [] c.claude /\ H["claude"] # <<>> -> "claude"
      [] OTHER -> "none"

\* what the provider does with a summary request: it answers with a text,
\* with an empty text, or the request fails
SummaryOutcomes == {"text", "empty", "fails"}

\* <adapter>.get_conversation_summary() on a transcript that is not empty:
\* the content of the answer as it is, the fixed text on any exception
AdapterSummary(o) ==
    CASE o = "text" -> "summary"
      [] o = "empty" -> ""
      [] o = "fails" -> "Unable to generate summary."

\* no request is sent when no adapter has a transcript
get_conversation_summary(c, H, o) ==
    IF SummaryAdapter(c, H) # "none"
    THEN AdapterSummary(o)
    ELSE "No conversation history."

\* the CallStatus values Twilio reports
Statuses ==
    {"queued", "ringing", "in-progress",
     "completed", "busy", "no-answer", "failed", "canceled"}

\* a callback that ends the call on "completed" only
TerminalStatuses_CompletedOnly == {"completed"}

\* `if CallStatus in ["completed", "busy", "no-answer", "failed", "canceled"]`
TerminalStatuses == {"completed", "busy", "no-answer", "failed", "canceled"}

\* call_status_callback (server.py): PhoneAssistant.end_call(From) on a
\* terminal status when From is given ("none" when the form has no From),
\* and the acknowledgement in every case
CallStatusCallback(status, from, summarised, noted) ==
    /\ nEvents < MaxEvents
    /\ nEvents' = nEvents + 1
    /\ IF status \in TerminalStatuses /\ from # "none" THEN
            /\ curCall[from] # 0
            /\ curCall' = [curCall EXCEPT ![from] = 0]
            /\ IF from \in DOMAIN active_calls THEN
                    LET call_info == active_calls[from]
                        summary == get_conversation_summary(cfg, hist, summarised)
                    IN
                    /\ call_info.customer.known \/ noted = "created"
                    /\ summarised = "text" \/ summary # "No conversation history."
                    /\ \E n \in {IF call_info.customer.known THEN TryCreateNote(noted)
                                  ELSE [raised |-> FALSE, value |-> "none"]} :
                        /\ IF n.raised THEN UNCHANGED <<hist, active_calls>>
                           ELSE /\ hist' = reset_conversations(cfg, hist)
                                /\ active_calls' =
                                     [x \in DOMAIN active_calls \ {from} |-> active_calls[x]]
                        /\ last' = [Did("end_call", from, curCall[from], summary, NoGen,
                                        NoReply, n.value)
                                    EXCEPT !.status = status, !.ack = "received"]
               ELSE /\ noted = "created" /\ summarised = "text"
                    /\ UNCHANGED <<hist, active_calls>>
                    /\ last' = [Did("end_call", from, curCall[from], "", NoGen, NoReply, "none")
                                EXCEPT !.status = status, !.ack = "received"]
       ELSE
            /\ noted = "created" /\ summarised = "text"
            /\ UNCHANGED <<hist, active_calls, curCall>>
            /\ last' = [Did("call_status", from, 0, "", NoGen, NoReply, "none")
                        EXCEPT !.status = status, !.ack = "received"]
    /\ UNCHANGED <<cfg, available, stats, nCalls>>

\* call_ended: the callback of a completed call
EndCall(caller, summarised, noted) ==
    CallStatusCallback("completed", caller, summarised, noted)

\* the bodies of the text messages sent to a PhoneAssistant
SmsBodies == {q \in AssistantUtterances : q.text = "hi"}

\* what TwilioHandler.send_sms may do
SendOutcomes == {"sent", "raises"}

\* incoming_message: handle_incoming_sms (server.py), which calls the cloud
\* adapter directly and sends its text back; any exception, that of calling
\* generate_response on None included, ends in the error status
IncomingSms(sender, send) ==
    /\ nEvents < MaxEvents
    /\ nEvents' = nEvents + 1
    /\ \E body \in SmsBodies :
       \E o \in (IF cfg.claude THEN CallOutcomes("claude") ELSE {Idle("claude")}) :
       \E r \in {CallAdapter(cfg, [hist |-> hist, calls |-> <<>>], "claude", "default",
                             body, 0,
                             [x \in Adapters |-> IF x = "claude" THEN o ELSE Idle(x)])} :
            /\ r.raised => send = "raises"
            /\ hist' = r.S.hist
            /\ last' = [Did("incoming_sms", sender, 0, body.text,
                            [NoGen EXCEPT !.text = r.ret, !.calls = r.S.calls],
                            NoReply, "none")
                        EXCEPT !.sms = IF ~r.raised /\ send = "sent"
                                       THEN "sent" ELSE "failed"]
    /\ UNCHANGED <<cfg, available, active_calls, stats, curCall, nCalls>>

----------------------------------------------------------------------------

RouterNext ==
    \/ GenerateResponse
    \/ ResetConversations

RouterSpec == RouterInit /\ [][RouterNext]_vars

Next ==
    \/ \E caller \in Callers : \E lookup \in LookupOutcomes : IncomingCall(caller, lookup)
    \/ \E caller \in Callers : ProcessSpeech(caller)
    \/ \E caller \in Callers : \E summarised \in SummaryOutcomes : \E noted \in NoteOutcomes :
         EndCall(caller, summarised, noted)
    \/ \E sender \in Callers : \E send \in SendOutcomes : IncomingSms(sender, send)

Spec == Init /\ [][Next]_vars

\* the webhooks without /voice/process: calls come in, text messages fill the
\* cloud transcript, and status callbacks arrive with any status, with and
\* without a caller number
StatusNext ==
    \/ \E caller \in Callers : \E lookup \in LookupOutcomes : IncomingCall(caller, lookup)
    \/ \E sender \in Callers : \E send \in SendOutcomes : IncomingSms(sender, send)
    \/ \E status \in Statuses : \E from \in Callers \cup {"none"} :
       \E summarised \in SummaryOutcomes : \E noted \in NoteOutcomes :
         CallStatusCallback(status, from, summarised, noted)

StatusSpec == Init /\ [][StatusNext]_vars

----------------------------------------------------------------------------
(* The adapters on their own: generate calls made directly on a           *)
(* ClaudeHandler, an OllamaHandler and a GatewayHandler, starting from     *)
(* transcripts of earlier successful exchanges.                            *)

MaxExchanges == 25
MaxAdapterCalls == 2

\* the messages passed to generate: plain, padded, whitespace-only, empty
AdapterMessages ==
    { Utterance("hi", "hi", 1, TRUE, FALSE, FALSE, FALSE),
      Utterance(" hi ", "hi", 1, TRUE, FALSE, FALSE, FALSE),
      Utterance("   ", "", 0, FALSE, FALSE, FALSE, FALSE),
      Utterance("", "", 0, FALSE, FALSE, FALSE, FALSE) }

MessageOf(text) == CHOOSE m \in AdapterMessages : m.text = text

\* what the provider does with a request made directly on an adapter
AdapterReplies(a) ==
    {o \in ProviderOutcomes(a) : o.kind = "text" => o.text \in {"ok", "cloud answer"}}

\* one adapter called with an outcome, the other two left alone
Only(a, o) == [x \in Adapters |-> IF x = a THEN o ELSE Idle(x)]

AllConfigured ==
    [ollama |-> TRUE, claude |-> TRUE, gateway |-> TRUE,
     prefer_local |-> TRUE, prefer_edge |-> FALSE]

\* <adapter>.generate_response on the adapter's own transcript
AdapterCall(a, h, q, k, o) ==
    CASE a = "ollama" -> OllamaGenerate(h, q, k, o)
      [] a = "claude" -> ClaudeGenerate(h, q, k, o)
      [] a = "gateway" -> GatewayGenerate(h, q, k, o)

\* the transcript of adapter a after n successful generate("hi") calls
RECURSIVE Exchanges(_, _)
Exchanges(a, n) ==
    IF n = 0 THEN <<>>
    ELSE The({AdapterCall(a, h, MessageOf("hi"), 0,
                          The({o \in AdapterReplies(a) : o.kind = "text"})).hist :
              h \in {Exchanges(a, n - 1)}})

AdapterInit ==
    /\ cfg = AllConfigured
    /\ available = <<>>
    /\ active_calls = <<>>
    /\ stats = ZeroStats
    /\ curCall = [c \in Callers |-> 0]
    /\ nCalls = 0
    /\ nEvents = 0
    /\ last = Did("init", "none", 0, "", NoGen, NoReply, "none")
    /\ \E n \in {0, MaxExchanges - 1, MaxExchanges} :
          hist = [a \in Adapters |-> Exchanges(a, n)]

\* <adapter>.generate_response(message)
AdapterGenerate(a) ==
    /\ nEvents < MaxAdapterCalls
    /\ nEvents' = nEvents + 1
    /\ \E q \in AdapterMessages : \E o \in AdapterReplies(a) :
       \E r \in {CallAdapter(cfg, [hist |-> hist, calls |-> <<>>], a, "default",
                             q, 0, Only(a, o))} :
        /\ hist' = r.S.hist
        /\ last' = Did("adapter_generate", "none", 0, q.text,
                       [NoGen EXCEPT !.propagated = r.raised, !.text = r.ret,
                                     !.calls = r.S.calls],
                       NoReply, "none")
    /\ UNCHANGED <<cfg, available, active_calls, stats, curCall, nCalls>>

AdapterNext == \E a \in Adapters : AdapterGenerate(a)

AdapterSpec == AdapterInit /\ [][AdapterNext]_vars

----------------------------------------------------------------------------
(* route() and get_conversation_summary() called directly on an AIRouter   *)
(* whose adapters may hold a transcript                                    *)

MaxRouteCalls == 2

RouteInit ==
    /\ cfg \in RouterConfigs
    /\ available = <<>>
    /\ active_calls = <<>>
    /\ stats = ZeroStats
    /\ curCall = [c \in Callers |-> 0]
    /\ nCalls = 0
    /\ nEvents = 0
    /\ last = Did("init", "none", 0, "", NoGen, NoReply, "none")
    /\ hist \in [ollama : {Exchanges("ollama", n) : n \in IF cfg.ollama THEN {0, 1} ELSE {0}},
                  claude : {Exchanges("claude", n) : n \in IF cfg.claude THEN {0, 1} ELSE {0}},
                  gateway : {Exchanges("gateway", n) : n \in IF cfg.gateway THEN {0, 1} ELSE {0}}]

\* a route() that stores the query in the local adapter's transcript
Route_RecordsQuery ==
    /\ nEvents < MaxRouteCalls
    /\ nEvents' = nEvents + 1
    /\ \E q \in RouteUtterances : \E probe \in Probes(ProbeOutcomes, cfg) :
       \E rt \in {route(cfg, q, probe)} :
        /\ available' = Refreshed(cfg, available, probe)
        /\ hist' = [hist EXCEPT !["ollama"] = Append(@, Turn("user", q.text, 0))]
        /\ last' = [Did("route", "none", 0, q.text,
                        [NoGen EXCEPT !.propagated = rt.raised,
                                      !.routed = IF rt.raised THEN NoDecision ELSE rt.value,
                                      !.decision = IF rt.raised THEN NoDecision ELSE rt.value,
                                      !.probe = probe],
                        NoReply, "none")
                    EXCEPT !.before = available]
    /\ UNCHANGED <<cfg, active_calls, stats, curCall, nCalls>>

\* AIRouter.route(query); last.before holds the availability flags the
\* router had when the call began
Route ==
    /\ nEvents < MaxRouteCalls
    /\ nEvents' = nEvents + 1
    /\ \E q \in RouteUtterances : \E probe \in Probes(ProbeOutcomes, cfg) :
       \E rt \in {route(cfg, q, probe)} :
        /\ available' = Refreshed(cfg, available, probe)
        /\ last' = [Did("route", "none", 0, q.text,
                        [NoGen EXCEPT !.propagated = rt.raised,
                                      !.routed = IF rt.raised THEN NoDecision ELSE rt.value,
                                      !.decision = IF rt.raised THEN NoDecision ELSE rt.value,
                                      !.probe = probe],
                        NoReply, "none")
                    EXCEPT !.before = available]
    /\ UNCHANGED <<cfg, hist, active_calls, stats, curCall, nCalls>>

\* AIRouter.get_conversation_summary(); the request it sends, if any, is
\* logged in last.gen.calls
Summarise ==
    /\ nEvents < MaxRouteCalls
    /\ nEvents' = nEvents + 1
    /\ \E o \in SummaryOutcomes : \E a \in {SummaryAdapter(cfg, hist)} :
        /\ a = "none" => o = "text"
        /\ last' = Did("get_conversation_summary", "none", 0, "",
                       [NoGen EXCEPT
                            !.text = get_conversation_summary(cfg, hist, o),
                            !.calls = IF a = "none" THEN <<>>
                                      ELSE <<[adapter |-> a, model |-> "fast",
                                              raised |-> FALSE, outcome |-> o,
                                              ret |-> AdapterSummary(o),
                                              sent |-> hist[a]]>>],
                       NoReply, "none")
    /\ UNCHANGED <<cfg, hist, available, active_calls, stats, curCall, nCalls>>

RouteNext == Route \/ Summarise

RouteSpec == RouteInit /\ [][RouteNext]_vars

----------------------------------------------------------------------------
(* mask_phone_number (utils/config.py), applied to one phone string.  A    *)
(* string is a sequence of characters; a missing value (None) is a record  *)
(* with given = FALSE.                                                     *)

MaxPhoneLen == 7

PhoneChars == {"+", "1", "2"}

RECURSIVE Strings(_)
Strings(n) ==
    IF n = 0 THEN {<<>>}
    ELSE LET S == Strings(n - 1)
         IN S \cup {Append(t, ch) : t \in {x \in S : Len(x) = n - 1}, ch \in PhoneChars}

Phones ==
    {[given |-> FALSE, chars |-> <<>>]} \cup [given : {TRUE}, chars : Strings(MaxPhoneLen)]

\* "*" * n: the empty string for n <= 0
Stars(n) == [i \in 1..n |-> "*"]

mask_phone_number(phone) ==
    IF ~phone.given \/ phone.chars = <<>> \/ Len(phone.chars) < 4
    THEN <<"*", "*", "*">>
    ELSE SubSeq(phone.chars, 1, 2) \o Stars(Len(phone.chars) - 6)
         \o SubSeq(phone.chars, Len(phone.chars) - 3, Len(phone.chars))

\* the phone string the function is about to be applied to is in last.query
MaskInit ==
    /\ cfg = AllConfigured
    /\ available = <<>>
    /\ hist = [a \in Adapters |-> <<>>]
    /\ active_calls = <<>>
    /\ stats = ZeroStats
    /\ curCall = [c \in Callers |-> 0]
    /\ nCalls = 0
    /\ nEvents = 0
    /\ \E phone \in Phones :
         last = [Did("init", "none", 0, "", NoGen, NoReply, "none")
                 EXCEPT !.query = phone]

\* mask_phone_number(phone): the result is in last.reply
Mask ==
    /\ last.op = "init"
    /\ last' = [last EXCEPT !.op = "mask_phone_number",
                            !.reply = mask_phone_number(last.query)]
    /\ nEvents' = nEvents + 1
    /\ UNCHANGED <<cfg, available, hist, active_calls, stats, curCall, nCalls>>

MaskNext == Mask

MaskSpec == MaskInit /\ [][MaskNext]_vars

----------------------------------------------------------------------------
(* Properties of AIRouter.generate_response.  `last` holds what the last   *)
(* handler did; a generate_response call is the last thing done both after *)
(* GenerateResponse and after ProcessSpeech.                               *)

Answered == last.op \in {"generate_response", "process_speech"}

Returned == Answered /\ ~last.gen.propagated

\* the adapter calls of the last generate_response that reached an adapter
CallsTo(a) ==
    {i \in 1..Len(last.gen.calls) :
        last.gen.calls[i].adapter = a /\ ~last.gen.calls[i].raised}

\* the adapter behind a concrete backend
AdapterOf(backend) ==
    CASE backend \in {OLLAMA_FAST, OLLAMA_CHAT, OLLAMA_SMART} -> "ollama"
      [] backend = CLAUDE -> "claude"
      [] backend \in {GATEWAY_FAST, GATEWAY_SMART} -> "gateway"
      [] OTHER -> "none"

UtteranceOf(text) == CHOOSE u \in RouteUtterances : u.text = text

MentionsFallback(reason) ==
    reason \in {"Hybrid fallback to Claude", "Hybrid fallback to Ollama"}
               \cup {FallbackReason(b) : b \in BackendType}

\* C1: the decision returned by generate_response never has backend HYBRID
\* or HYBRID_EDGE; it names the backend of the adapter that produced the
\* returned text.
C1_DecisionNamesConcreteBackend ==
    Returned =>
        /\ last.gen.decision.backend \notin {HYBRID, HYBRID_EDGE}
        /\ \A i \in 1..Len(last.gen.calls) :
              (/\ ~last.gen.calls[i].raised
               /\ last.gen.calls[i].ret = last.gen.text
               /\ \A j \in (i + 1)..Len(last.gen.calls) : last.gen.calls[j].raised)
              => AdapterOf(last.gen.decision.backend) = last.gen.calls[i].adapter

\* C2: the text returned by generate_response is never empty: the fixed
\* apology is substituted when no adapter produced any.
C2_TextNeverEmpty ==
    Returned => last.gen.text # ""

\* an adapter returned the empty string and the apology took its place
C2_ApologySubstituted ==
    /\ last.op = "generate_response"
    /\ Len(last.gen.calls) > 0
    /\ ~last.gen.calls[Len(last.gen.calls)].raised
    /\ last.gen.calls[Len(last.gen.calls)].ret = ""
    /\ last.gen.text = ROUTER_APOLOGY

\* C3: generate_response never raises to its caller, whatever the probes
\* and the adapters do.
C3_NeverPropagates ==
    Answered => ~last.gen.propagated

\* a probe raised, the selected adapter was None, and a pair was returned
C3_ProbeAndAdapterFailed ==
    /\ last.op = "generate_response"
    /\ last.gen.probe.ollama = "exception"
    /\ last.gen.caught
    /\ last.gen.text = ROUTER_APOLOGY

\* C4: when an adapter call raises: one call of the cloud adapter and a
\* CLAUDE decision naming the failed backend if the routed backend is not
\* CLAUDE and a cloud adapter is configured; otherwise the fixed apology
\* with the original decision.
C4_ExceptionFallback ==
    (Returned /\ last.gen.caught) =>
        IF last.gen.routed.backend # CLAUDE /\ cfg.claude
        THEN /\ Cardinality(CallsTo("claude")) = 1
             /\ last.gen.decision.backend = CLAUDE
             /\ last.gen.decision.reason = FallbackReason(last.gen.routed.backend)
        ELSE /\ last.gen.text = ROUTER_APOLOGY
             /\ last.gen.decision = last.gen.routed

\* C5: when the generation call of the local or edge adapter the query was
\* dispatched to times out or fails and a cloud adapter is configured, an
\* alternate adapter is called and the caller gets its text.
C5_TimeoutTriggersFallback ==
    (/\ Returned
     /\ cfg.claude
     /\ Len(last.gen.calls) > 0
     /\ last.gen.calls[1].adapter \in {"ollama", "gateway"}
     /\ last.gen.calls[1].outcome \in {"timeout", "error"})
    => \E j \in 2..Len(last.gen.calls) :
          /\ last.gen.calls[j].adapter # last.gen.calls[1].adapter
          /\ ~last.gen.calls[j].raised
          /\ last.gen.calls[j].ret = "" \/ last.gen.text = last.gen.calls[j].ret

\* C6: for a hybrid intent whose primary adapter returned, the fallback
\* adapter is called exactly when the primary text is empty or shorter than
\* 5 characters after trimming; then the decision names the fallback backend
\* with the routed complexity; otherwise the primary text is returned.
C6_HybridFallbackIff ==
    (/\ Returned
     /\ last.gen.routed.backend \in {HYBRID, HYBRID_EDGE}
     /\ Len(last.gen.calls) > 0
     /\ ~last.gen.calls[1].raised)
    => LET primaryText == last.gen.calls[1].ret
           fallback == IF last.gen.routed.backend = HYBRID THEN "claude" ELSE "ollama"
           fbBackend == IF last.gen.routed.backend = HYBRID THEN CLAUDE ELSE OLLAMA_CHAT
           fbCalled == \E j \in 2..Len(last.gen.calls) : j \in CallsTo(fallback)
       IN /\ fbCalled <=> Insufficient(primaryText)
          /\ fbCalled => /\ last.gen.decision.backend = fbBackend
                         /\ last.gen.decision.complexity = last.gen.routed.complexity
          /\ ~Insufficient(primaryText) => last.gen.text = primaryText

\* the fallback scenario: local and cloud adapters configured and available,
\* a complex utterance, the local generation call times out
C7_Scenario ==
    /\ Returned
    /\ cfg.ollama /\ cfg.claude
    /\ last.gen.probe.ollama = "healthy"
    /\ last.gen.routed.complexity = COMPLEX
    /\ Len(last.gen.calls) > 0
    /\ last.gen.calls[1].adapter = "ollama"
    /\ last.gen.calls[1].outcome = "timeout"

\* C7 as stated: in the fallback scenario generate_response returns the
\* cloud adapter's text with a CLAUDE decision whose reason mentions the
\* fallback.
C7_ReturnsCloudText ==
    C7_Scenario =>
        /\ \E j \in CallsTo("claude") : last.gen.text = last.gen.calls[j].ret
        /\ last.gen.decision.backend = CLAUDE
        /\ MentionsFallback(last.gen.decision.reason)

\* C7, amended: in the fallback scenario generate_response returns the cloud
\* adapter's text, or the fixed apology when that text is empty, with a
\* CLAUDE decision whose reason mentions the fallback.
C7_ReturnsCloudTextOrApology ==
    C7_Scenario =>
        /\ \E j \in CallsTo("claude") :
              last.gen.text = (IF last.gen.calls[j].ret = "" THEN ROUTER_APOLOGY
                               ELSE last.gen.calls[j].ret)
        /\ last.gen.decision.backend = CLAUDE
        /\ MentionsFallback(last.gen.decision.reason)

\* the scenario with the cloud adapter answering
C7_CloudAnswered ==
    /\ C7_Scenario
    /\ last.gen.text = "cloud answer"
    /\ last.gen.decision.backend = CLAUDE

\* C8: the complexity of the returned decision is the one the classifier
\* gave the utterance in route(); no fallback changes it.
C8_ComplexityPreserved ==
    Returned =>
        /\ last.gen.routed.complexity = analyze_query(UtteranceOf(last.query))
        /\ last.gen.decision.complexity = last.gen.routed.complexity

\* the exception fallback replaced the decision of a simple utterance
C8_DecisionReplaced ==
    /\ Returned
    /\ last.gen.caught
    /\ last.gen.routed.backend # CLAUDE
    /\ last.gen.decision.backend = CLAUDE
    /\ last.gen.routed.complexity = SIMPLE

----------------------------------------------------------------------------
(* Properties of the call lifecycle *)

TurnsOfCall(h, k) == SelectSeq(h, LAMBDA t : t.call = k)

IsPrefix(s, t) == Len(s) <= Len(t) /\ SubSeq(t, 1, Len(s)) = s

\* C9: the transcript sent to a backend with a caller's utterance holds only
\* turns of that caller's current call.
C9_NoCrossCallBleed ==
    last.op = "process_speech" =>
        \A i \in 1..Len(last.gen.calls) :
            \A n \in 1..Len(last.gen.calls[i].sent) :
                last.gen.calls[i].sent[n].call = last.call

\* C10: while a call goes on, no handler removes a turn of that call from
\* an adapter's transcript, except the oldest ones when the transcript is
\* trimmed at its maximum length.
C10_MonotonicWithinCall ==
    [][\A c \in Callers : \A a \in Adapters :
          (curCall[c] # 0 /\ curCall'[c] = curCall[c]) =>
              LET old == TurnsOfCall(hist[a], curCall[c])
                  new == TurnsOfCall(hist'[a], curCall[c])
              IN \E n \in 0..Len(old) :
                    /\ n > 0 => Len(hist[a]) >= MAX_CONVERSATION_LENGTH
                    /\ IsPrefix(SubSeq(old, n + 1, Len(old)), new)]_vars

\* C11: immediately after handle_incoming_call returns and immediately after
\* end_call returns, whatever the CRM lookup did, every configured adapter
\* has an empty transcript.
C11_EmptyAtCallBoundaries ==
    last.op \in {"incoming_call", "end_call"} =>
        \A a \in Adapters : cfg[a] => hist[a] = <<>>

----------------------------------------------------------------------------
(* Properties of the adapters' generate_response *)

\* the provider outcomes that make a generate call fail
FailureKinds == {"timeout", "error", "rate_limit", "connection", "api_error"}

\* the last thing done was a generate call made directly on an adapter; its
\* record is last.gen.calls[1]
AdapterCalled == last.op = "adapter_generate" /\ Len(last.gen.calls) = 1

\* the generate call sent a request and the provider answered it
AdapterSucceeded ==
    /\ AdapterCalled
    /\ ~last.gen.calls[1].raised
    /\ last.gen.calls[1].sent # <<>>
    /\ last.gen.calls[1].outcome \in {"text", "empty_content"}

\* C12: when the request of a generate call fails, the adapter's transcript
\* after the call equals its transcript before the call.
C12_FailedTurnRolledBack ==
    [][(/\ nEvents' = nEvents + 1
        /\ last'.op = "adapter_generate"
        /\ last'.gen.calls[1].sent # <<>>
        /\ last'.gen.calls[1].outcome \in FailureKinds)
       => hist'[last'.gen.calls[1].adapter] = hist[last'.gen.calls[1].adapter]]_vars

\* C13: generate with an empty or whitespace-only message returns the fixed
\* "didn't catch that" text, sends no request and leaves the transcript
\* unchanged, on every adapter.
C13_BlankMessageRejected ==
    [][(/\ nEvents' = nEvents + 1
        /\ last'.op = "adapter_generate"
        /\ MessageOf(last'.query).stripped = "")
       => /\ last'.gen.calls[1].ret = DIDNT_CATCH
          /\ last'.gen.calls[1].sent = <<>>
          /\ hist' = hist]_vars

\* C14: after every generate call every adapter's transcript has at most
\* the maximum retained length plus the newest exchange (2 turns).
C14_TranscriptBounded ==
    \A a \in Adapters : Len(hist[a]) <= MAX_CONVERSATION_LENGTH + 2

\* C15 as stated: after a successful generate(m) the last two entries of the
\* adapter's transcript are the user turn with content m and the assistant
\* turn with the returned text.
C15_LastExchangeVerbatim ==
    AdapterSucceeded =>
        LET h == hist[last.gen.calls[1].adapter] IN
        /\ Len(h) >= 2
        /\ h[Len(h) - 1] = Turn("user", last.query, 0)
        /\ h[Len(h)] = Turn("assistant", last.gen.calls[1].ret, 0)

\* C15, amended: after a successful generate(m) the last two entries of the
\* adapter's transcript are the user turn with content m (on the cloud
\* adapter: m without its leading and trailing whitespace) and the assistant
\* turn with the returned text.
C15_LastExchangeStored ==
    AdapterSucceeded =>
        LET a == last.gen.calls[1].adapter
            h == hist[a]
        IN
        /\ Len(h) >= 2
        /\ h[Len(h) - 1] = Turn("user",
                                IF a = "claude" THEN MessageOf(last.query).stripped
                                ELSE last.query, 0)
        /\ h[Len(h)] = Turn("assistant", last.gen.calls[1].ret, 0)

\* a padded message answered by the cloud adapter with a full transcript
C15_PaddedMessageStored ==
    /\ AdapterSucceeded
    /\ last.gen.calls[1].adapter = "claude"
    /\ last.query = " hi "
    /\ last.gen.calls[1].ret = "cloud answer"
    /\ Len(hist["claude"]) > MAX_CONVERSATION_LENGTH

\* C16: no adapter's generate raises; when the provider fails the local and
\* edge adapters return the empty string and the cloud adapter returns a
\* non-empty text.
C16_AdaptersNeverRaise ==
    AdapterCalled =>
        /\ ~last.gen.calls[1].raised
        /\ ~last.gen.propagated
        /\ (last.gen.calls[1].outcome \in FailureKinds) =>
              IF last.gen.calls[1].adapter = "claude"
              THEN last.gen.calls[1].ret # ""
              ELSE last.gen.calls[1].ret = ""

\* the local adapter's request timed out and generate returned normally
C16_ProviderFailed ==
    /\ AdapterCalled
    /\ last.gen.calls[1].adapter = "ollama"
    /\ last.gen.calls[1].outcome = "timeout"
    /\ last.gen.calls[1].sent # <<>>
    /\ last.gen.calls[1].ret = ""

----------------------------------------------------------------------------
(* Properties of AIRouter.route, read off the decision route() returned to *)
(* the last generate_response (last.gen.routed) and the snapshot it took   *)
(* (the configured adapters and the outcome of their probes).              *)

\* the adapter was reported available in the snapshot of the last route()
Up(a) ==
    IF a = "claude" THEN cfg.claude
    ELSE cfg[a] /\ last.gen.probe[a] = "healthy"

RoutedComplexity == analyze_query(UtteranceOf(last.query))

EdgeShortCircuit == cfg.prefer_edge /\ Up("gateway") /\ RoutedComplexity = SIMPLE

\* C17: with two or more adapters available and no edge short-circuit,
\* route() returns OLLAMA_FAST with the fast model for simple; OLLAMA_CHAT
\* for moderate appointment queries; OLLAMA_CHAT if prefer_local else CLAUDE
\* for other moderate queries; HYBRID with the local smart model if
\* prefer_local else CLAUDE for complex.
C17_MultiBackendPolicy ==
    (/\ Returned
     /\ Cardinality({a \in Adapters : Up(a)}) >= 2
     /\ ~EdgeShortCircuit)
    => LET d == last.gen.routed
           appointment == UtteranceOf(last.query).keyword
       IN CASE RoutedComplexity = SIMPLE ->
                  d.backend = OLLAMA_FAST /\ d.model = "quick-responder:latest"
            [] RoutedComplexity = MODERATE /\ appointment ->
                  d.backend = OLLAMA_CHAT
            [] RoutedComplexity = MODERATE /\ ~appointment ->
                  d.backend = (IF cfg.prefer_local THEN OLLAMA_CHAT ELSE CLAUDE)
            [] OTHER ->
                  IF cfg.prefer_local
                  THEN d.backend = HYBRID /\ d.model = "llama3.3:70b"
                  ELSE d.backend = CLAUDE

\* a moderate appointment query routed locally although prefer_local is off
C17_AppointmentRoutedLocal ==
    /\ Returned
    /\ Cardinality({a \in Adapters : Up(a)}) >= 2
    /\ ~cfg.prefer_local
    /\ last.query = "book a slot"
    /\ last.gen.routed.backend = OLLAMA_CHAT

\* C18: whenever prefer_edge is set, the edge adapter is available and the
\* utterance is simple, route() returns GATEWAY_FAST with the smallest edge
\* model, whatever else is available and whatever prefer_local is.
C18_EdgePreferredFirst ==
    (Returned /\ EdgeShortCircuit) =>
        /\ last.gen.routed.backend = GATEWAY_FAST
        /\ last.gen.routed.model = "llama-3.2-1b"

\* the short-circuit taken with the local and cloud adapters available too
C18_EdgeChosenOverLocal ==
    /\ Returned
    /\ EdgeShortCircuit
    /\ Up("ollama") /\ Up("claude") /\ cfg.prefer_local
    /\ last.gen.routed.backend = GATEWAY_FAST

\* C19: when only the edge adapter is available, route() returns
\* GATEWAY_FAST with the small model for simple, GATEWAY_SMART with the
\* mid-size model for moderate and with the large model for complex.
C19_OnlyEdgeAvailable ==
    (Returned /\ Up("gateway") /\ ~Up("ollama") /\ ~Up("claude")) =>
        LET d == last.gen.routed IN
        CASE RoutedComplexity = SIMPLE ->
                d.backend = GATEWAY_FAST /\ d.model = "llama-3.2-1b"
          [] RoutedComplexity = MODERATE ->
                d.backend = GATEWAY_SMART /\ d.model = "llama-3.1-8b"
          [] OTHER ->
                d.backend = GATEWAY_SMART /\ d.model = "llama-3.3-70b"

\* a moderate query routed to the edge adapter's mid-size model while the
\* local adapter is configured but down
C19_ModerateOnEdge ==
    /\ Returned
    /\ Up("gateway") /\ ~Up("ollama") /\ ~Up("claude")
    /\ cfg.ollama
    /\ RoutedComplexity = MODERATE
    /\ last.gen.routed.backend = GATEWAY_SMART

\* C20: when the local adapter is the only available one, route() returns
\* OLLAMA_FAST with the fast model for simple, OLLAMA_CHAT with the chat
\* model for moderate and OLLAMA_CHAT with the largest local model for
\* complex.
C20_OnlyLocalAvailable ==
    (Returned /\ Up("ollama") /\ ~Up("claude") /\ ~Up("gateway")) =>
        LET d == last.gen.routed IN
        CASE RoutedComplexity = SIMPLE ->
                d.backend = OLLAMA_FAST /\ d.model = "quick-responder:latest"
          [] RoutedComplexity = MODERATE ->
                d.backend = OLLAMA_CHAT /\ d.model = "cyberque-chat:latest"
          [] OTHER ->
                d.backend = OLLAMA_CHAT /\ d.model = "llama3.3:70b"

\* a complex query routed to the largest local model
C20_ComplexOnLocal ==
    /\ Returned
    /\ Up("ollama") /\ ~Up("claude") /\ ~Up("gateway")
    /\ RoutedComplexity = COMPLEX
    /\ last.gen.routed.backend = OLLAMA_CHAT
    /\ last.gen.routed.model = "llama3.3:70b"

\* C21: whenever the local and edge adapters are both unavailable, route()
\* returns backend CLAUDE with no model, whether or not the cloud adapter
\* is available.
C21_CloudAsLastResort ==
    (Returned /\ ~Up("ollama") /\ ~Up("gateway")) =>
        /\ last.gen.routed.backend = CLAUDE
        /\ last.gen.routed.model = "None"

\* no adapter at all was available (the local one configured but down) and
\* the cloud backend was chosen all the same
C21_NothingAvailable ==
    /\ Returned
    /\ cfg.ollama
    /\ \A a \in Adapters : ~Up(a)
    /\ last.gen.routed.backend = CLAUDE

\* C22: an utterance of at most 3 words that matches a simple pattern is
\* classified simple, even when it also matches a complex or a moderate
\* pattern.
C22_ShortSimpleFirst ==
    (/\ Returned
     /\ UtteranceOf(last.query).wc <= 3
     /\ UtteranceOf(last.query).simple)
    => last.gen.routed.complexity = SIMPLE

\* a two-word utterance matching a simple and a complex pattern
C22_ShortSimpleAndComplex ==
    /\ Returned
    /\ last.query = "yes because"
    /\ UtteranceOf(last.query).complex
    /\ last.gen.routed.complexity = SIMPLE

\* C23: an utterance that matches a complex pattern is classified complex,
\* whatever its length and the moderate or simple patterns it also matches,
\* unless it has at most 3 words and matches a simple pattern.
C23_ComplexBeforeOthers ==
    (/\ Returned
     /\ UtteranceOf(last.query).complex
     /\ ~(UtteranceOf(last.query).wc <= 3 /\ UtteranceOf(last.query).simple))
    => last.gen.routed.complexity = COMPLEX

\* a seven-word utterance matching patterns of all three kinds
C23_LongMatchingAllKinds ==
    /\ Returned
    /\ UtteranceOf(last.query).wc > 3
    /\ UtteranceOf(last.query).simple
    /\ UtteranceOf(last.query).moderate
    /\ UtteranceOf(last.query).complex
    /\ last.gen.routed.complexity = COMPLEX

----------------------------------------------------------------------------
(* Properties of PhoneAssistant.process_speech and of the webhooks *)

BackendCounters == {"ollama_fast", "ollama_chat", "ollama_smart", "claude", "hybrid_fallback"}

\* the counters that belong to an adapter; no counter belongs to the edge
\* adapter and hybrid_fallback belongs to none
CountersOf(a) ==
    CASE a = "ollama" -> {"ollama_fast", "ollama_chat", "ollama_smart"}
      [] a = "claude" -> {"claude"}
      [] OTHER -> {}

\* the adapter whose generate call produced the text of g: "none" when the
\* text is the router's apology
ProducerOf(g) ==
    LET P == {i \in 1..Len(g.calls) :
                ~g.calls[i].raised /\ g.calls[i].ret = g.text /\ g.text # ""}
    IN IF P = {} THEN "none"
       ELSE g.calls[CHOOSE i \in P : \A j \in P : j <= i].adapter

\* C24: for each utterance whose dispatch succeeded exactly one per-backend
\* counter goes up by one, and it is a counter of the adapter that produced
\* the text.
C24_FinalBackendCounted ==
    [][(/\ nEvents' = nEvents + 1
        /\ last'.op = "process_speech"
        /\ ~last'.gen.propagated
        /\ ProducerOf(last'.gen) # "none")
       => \E k \in BackendCounters :
            /\ stats'[k] = stats[k] + 1
            /\ \A j \in BackendCounters \ {k} : stats'[j] = stats[j]
            /\ k \in CountersOf(ProducerOf(last'.gen))]_vars

\* C25: process_speech always answers with speech markup that says some
\* text, and every incoming text message ends with a reply text sent to its
\* sender.
C25_AlwaysNaturalLanguage ==
    /\ last.op = "process_speech" => last.reply.say # ""
    /\ last.op = "incoming_sms" => last.sms = "sent" /\ last.gen.text # ""

----------------------------------------------------------------------------
(* Properties of reset_conversations and of the dispatch of one query *)

\* C26: right after reset_conversations the summary is the fixed "No
\* conversation history." text whatever a backend would answer, no adapter is
\* asked for it, and a second reset changes nothing.
C26_ResetThenSummary ==
    last.op = "reset_conversations" =>
        /\ \A summarised \in SummaryOutcomes :
              get_conversation_summary(cfg, hist, summarised) = "No conversation history."
        /\ SummaryAdapter(cfg, hist) = "none"
        /\ reset_conversations(cfg, hist) = hist

\* a reset that followed a query answered by the edge adapter, whose
\* transcript held the exchange
C26_ResetAfterEdgeAnswer ==
    /\ last.op = "reset_conversations"
    /\ \E i \in 1..Len(last.gen.calls) :
         /\ last.gen.calls[i].adapter = "gateway"
         /\ ~last.gen.calls[i].raised
         /\ last.gen.calls[i].outcome = "text"
         /\ last.gen.calls[i].ret # ""
    /\ hist["gateway"] = <<>>

\* transcript h2 is transcript h1 followed by nothing, by a user turn that
\* holds text q, or by that user turn and one assistant turn
ExtendedInOrder(h1, h2, q) ==
    LET n == Len(h1)
        m == Len(h2)
    IN /\ m \in n..(n + 2)
       /\ SubSeq(h2, 1, n) = h1
       /\ m > n => h2[n + 1].role = "user" /\ h2[n + 1].content = q
       /\ m = n + 2 => h2[n + 2].role = "assistant"

\* C27: each utterance or text message handled leaves every adapter's
\* transcript as it was and appends at its end at most the utterance's user
\* turn followed by its answer, so the user turns stand in arrival order and
\* an answer stands before the next utterance's user turn.
C27_AppendedInArrivalOrder ==
    [][(/\ nEvents' = nEvents + 1
        /\ last'.op \in {"process_speech", "incoming_sms"})
       => \A a \in Adapters : ExtendedInOrder(hist[a], hist'[a], last'.query)]_vars

\* the second utterance of a call answered by the adapter that answered the
\* first: its transcript holds the two exchanges in the order they arrived
C27_TwoExchangesInOrder ==
    /\ last.op = "process_speech"
    /\ \E a \in Adapters :
         /\ Len(hist[a]) = 4
         /\ \A i \in 1..4 : hist[a][i].call = last.call
         /\ hist[a][1].role = "user" /\ hist[a][1].content = "hi"
         /\ hist[a][2].role = "assistant"
         /\ hist[a][3].role = "user" /\ hist[a][3].content = "explain my invoice"
         /\ hist[a][3].content = last.query
         /\ hist[a][4].role = "assistant"
         /\ hist[a][4].content = last.gen.text

\* C28: one generate_response makes at most two generate calls that reach
\* an adapter, and it never turns to the same adapter twice.
C28_AtMostTwoAdapterCalls ==
    last.op = "generate_response" =>
        /\ Cardinality(UNION {CallsTo(a) : a \in Adapters}) <= 2
        /\ \A i, j \in 1..Len(last.gen.calls) :
              i # j => last.gen.calls[i].adapter # last.gen.calls[j].adapter

\* a primary call whose text was insufficient followed by the one fallback
\* call, each answered by its adapter
C28_PrimaryThenFallback ==
    /\ last.op = "generate_response"
    /\ Len(last.gen.calls) = 2
    /\ ~last.gen.calls[1].raised /\ Insufficient(last.gen.calls[1].ret)
    /\ ~last.gen.calls[2].raised
    /\ last.gen.calls[1].adapter # last.gen.calls[2].adapter

\* the adapters a routed backend dispatches to: a hybrid intent needs its
\* primary adapter and its fallback adapter
AdaptersOf(backend) ==
    CASE backend = HYBRID -> {"ollama", "claude"}
      [] backend = HYBRID_EDGE -> {"gateway", "ollama"}
      [] OTHER -> {AdapterOf(backend)}

\* C29: when the snapshot route() took reports an adapter available, every
\* adapter of the backend route() returned is available in that snapshot.
C29_RoutedBackendAvailable ==
    (last.op = "generate_response" /\ \E a \in Adapters : Up(a))
        => \A a \in AdaptersOf(last.gen.routed.backend) : Up(a)

----------------------------------------------------------------------------
(* The shape of the adapters' transcripts *)

\* empty, or user and assistant turns alternating from a user turn to an
\* assistant turn
WellFormed(h) ==
    /\ Len(h) % 2 = 0
    /\ \A i \in 1..Len(h) :
         h[i].role = IF i % 2 = 1 THEN "user" ELSE "assistant"

\* C30: between operations every adapter's transcript is empty or starts
\* with a user turn and alternates user and assistant turns, so that its
\* length is even.
C30_TranscriptsWellFormed ==
    \A a \in Adapters : WellFormed(hist[a])

----------------------------------------------------------------------------
(* Properties of route() called on its own.  last.gen.probe holds what the *)
(* probes of the call answered and last.before the flags of earlier calls. *)

\* the snapshot the probes of the last call give
Snapshot == [a \in {x \in Adapters : cfg[x]} |-> Up(a)]

\* C31: every route() call decides from the probes it made itself: the
\* decision is the routing policy applied to the snapshot of its own probes,
\* whatever the flags of earlier calls were, and the flags afterwards are
\* that snapshot.
C31_DecidesFromFreshProbes ==
    last.op = "route" =>
        /\ ~last.gen.propagated
        /\ last.gen.routed = routing_policy(cfg, UtteranceOf(last.query), Snapshot)
        /\ available = Snapshot

\* the local adapter was up at an earlier call and is down at this one, and
\* the decision goes to the cloud as the only adapter left
C31_WentDownSinceEarlierCall ==
    /\ last.op = "route"
    /\ cfg.ollama /\ cfg.claude /\ ~cfg.gateway
    /\ "ollama" \in DOMAIN last.before /\ last.before["ollama"]
    /\ last.gen.probe.ollama = "unhealthy"
    /\ last.gen.routed.backend = CLAUDE

\* C32: a route() call leaves every transcript, every usage counter, the
\* active calls and the configuration as they were; what it changes is the
\* availability flags.
C32_RouteChangesOnlyFlags ==
    [][(nEvents' = nEvents + 1 /\ last'.op = "route")
       => /\ hist' = hist
          /\ stats' = stats
          /\ active_calls' = active_calls
          /\ cfg' = cfg]_vars

\* a route() call made while the local adapter held a transcript: the
\* transcript is still there and the flag of the adapter has been set
C32_RoutedWithTranscript ==
    /\ last.op = "route"
    /\ Len(hist["ollama"]) = 2
    /\ last.before = <<>>
    /\ "ollama" \in DOMAIN available

\* C33: when the short-circuit for short utterances does not fire and no
\* complex pattern matches, a moderate pattern gives MODERATE; else a simple
\* pattern gives SIMPLE at any word count; else more than 15 words give
\* COMPLEX and everything else, the empty utterance included, MODERATE.
C33_RemainingStages ==
    (last.op = "route" /\ ~last.gen.propagated) =>
        LET q == UtteranceOf(last.query) IN
        (~(q.wc <= 3 /\ q.simple) /\ ~q.complex) =>
            last.gen.routed.complexity =
                IF q.moderate THEN MODERATE
                ELSE IF q.simple THEN SIMPLE
                ELSE IF q.wc > 15 THEN COMPLEX
                ELSE MODERATE

\* a query of 16 words that matches no pattern, classified COMPLEX
C33_LongWithoutPattern ==
    /\ last.op = "route"
    /\ UtteranceOf(last.query).wc > 15
    /\ ~UtteranceOf(last.query).simple
    /\ ~UtteranceOf(last.query).moderate
    /\ ~UtteranceOf(last.query).complex
    /\ last.gen.routed.complexity = COMPLEX

\* the configured adapters that hold a transcript
WithTranscript == {a \in Adapters : cfg[a] /\ hist[a] # <<>>}

\* C34: get_conversation_summary asks in the order local, edge, cloud and
\* returns the first summary that is not empty; the fixed "No conversation
\* history." text is returned only when no configured adapter holds a
\* transcript.
C34_FirstNonEmptySummary ==
    last.op = "get_conversation_summary" =>
        /\ last.gen.text = "No conversation history." => WithTranscript = {}
        /\ WithTranscript # {} =>
              /\ last.gen.text # ""
              /\ last.gen.calls[1].adapter =
                    IF "ollama" \in WithTranscript THEN "ollama"
                    ELSE IF "gateway" \in WithTranscript THEN "gateway"
                    ELSE "claude"

----------------------------------------------------------------------------
(* Properties of the status callback *)

\* C35: a status callback ends the call of its caller exactly when the
\* status is completed, busy, no-answer, failed or canceled and a caller
\* number is given; then that caller is no longer in the active calls and
\* no other caller is touched; otherwise nothing is ended; and the callback
\* is acknowledged in every case.
C35_EndsCallOnTerminalStatus ==
    [][(nEvents' = nEvents + 1 /\ last'.op \in {"end_call", "call_status"})
       => LET ended == last'.op = "end_call" IN
          /\ ended <=> (/\ last'.status \in {"completed", "busy", "no-answer",
                                              "failed", "canceled"}
                        /\ last'.caller \in Callers)
          /\ ended => /\ last'.caller \notin DOMAIN active_calls'
                      /\ \A c \in Callers \ {last'.caller} :
                            /\ c \in DOMAIN active_calls' <=> c \in DOMAIN active_calls
                            /\ curCall'[c] = curCall[c]
          /\ ~ended => /\ active_calls' = active_calls
                       /\ hist' = hist
                       /\ curCall' = curCall
          /\ last'.ack = "received"]_vars

\* a callback with status busy that ended the call of caller A while the
\* call of caller B goes on
C35_BusyEndedCall ==
    /\ last.op = "end_call"
    /\ last.status = "busy"
    /\ last.caller = "A"
    /\ last.call # 0
    /\ "A" \notin DOMAIN active_calls
    /\ "B" \in DOMAIN active_calls

----------------------------------------------------------------------------
(* Properties of the text-message webhook and of the usage counters *)

\* C36: handling a text message leaves the transcripts the voice calls use
\* as they were, and the request it sends to the backend holds no turn of a
\* voice call (turns of voice calls carry the number of their call, turns
\* of text messages carry 0).
C36_SmsIsolatedFromVoice ==
    [][(nEvents' = nEvents + 1 /\ last'.op = "incoming_sms")
       => /\ hist' = hist
          /\ \A i \in 1..Len(last'.gen.calls) :
               \A j \in 1..Len(last'.gen.calls[i].sent) :
                   last'.gen.calls[i].sent[j].call = 0]_vars

\* C37: no usage counter of a PhoneAssistant ever goes down, total_queries
\* is the sum of the five per-backend counters, and get_stats leaves the
\* counters as they are.
C37_CountersAddUp ==
    [][/\ \A k \in DOMAIN stats : stats'[k] >= stats[k]
       /\ stats'.total_queries =
            stats'.ollama_fast + stats'.ollama_chat + stats'.ollama_smart
            + stats'.claude + stats'.hybrid_fallback
       /\ get_stats(stats').stats = stats'
       /\ \A k \in DOMAIN stats : get_stats(stats').returned[k] = stats'[k]]_vars

\* two utterances counted, one under the hybrid intent and one under the
\* cloud backend
C37_TwoBackendsCounted ==
    /\ last.op = "process_speech"
    /\ stats.total_queries = 2
    /\ stats.hybrid_fallback = 1
    /\ stats.claude = 1

----------------------------------------------------------------------------
(* Properties of the CRM note *)

\* C38: when the append of the CRM note fails, process_speech still returns
\* the markup that says the text of the router and asks for more speech, and
\* end_call still clears the transcripts and removes the caller from the
\* active calls.
C38_NoteFailureHarmless ==
    /\ (last.op = "process_speech" /\ last.note = "raises") =>
            last.reply = create_response_twiml(last.gen.text, TRUE)
    /\ (last.op = "end_call" /\ last.note = "raises") =>
            /\ \A a \in Adapters : cfg[a] => hist[a] = <<>>
            /\ last.caller \notin DOMAIN active_calls

\* the call of a known customer ended after an answered utterance: the
\* transcript was summarised, the append of the summary note failed, and
\* the transcripts and the caller's entry are gone
C38_SummaryNoteFailed ==
    /\ last.op = "end_call"
    /\ last.note = "raises"
    /\ last.query = "summary"
    /\ stats.total_queries >= 1
    /\ \A a \in Adapters : hist[a] = <<>>
    /\ last.caller \notin DOMAIN active_calls

----------------------------------------------------------------------------
(* Properties of mask_phone_number *)

\* C39: for a phone string of 4 or more characters the masked string has
\* the length of the input, shows its first 2 and last 4 characters in
\* their places and "*" everywhere else; for a missing, empty or shorter
\* input it is "***".
C39_MaskKeepsLengthAndEnds ==
    last.op = "mask_phone_number" =>
        LET p == last.query
            r == last.reply
            n == Len(p.chars)
        IN IF p.given /\ n >= 4
           THEN /\ Len(r) = n
                /\ \A i \in 1..n :
                     r[i] = IF i <= 2 \/ i > n - 4 THEN p.chars[i] ELSE "*"
           ELSE r = <<"*", "*", "*">>

====
